---------------------------- MODULE Spec2Model ----------------------------
(***************************************************************************)
(* Model of the Telegram stories bot (src/bot.py, src/config.py).          *)
(*                                                                         *)
(* Text is modelled as a sequence of one-character strings, so that the    *)
(* regular expressions of get_entity_from_input are evaluated character   *)
(* by character.                                                           *)
(*                                                                         *)
(* Specifications:                                                         *)
(*   SpecClassify  StoriesDownloader.get_entity_from_input on drawn texts  *)
(*   SpecDownload  StoriesDownloader.download_stories on drawn targets     *)
(*   Spec          handle_message calls over the database                  *)
(*   SpecDb        DatabaseManager.save_user calls                         *)
(*   SpecConfig    get_config calls under a drawn environment              *)
(*   SpecSession   the callback actions over the session cache             *)
(***************************************************************************)
EXTENDS Integers, Sequences, FiniteSets, TLC

VARIABLES
    cin,        \* the text handed to get_entity_from_input
    cres,       \* what the call produced (NoCall before the call)
    dcap,       \* config.app.max_stories_per_request
    dactive,    \* the reply GetPeerStoriesRequest will get
    dpinned,    \* the reply GetPinnedStoriesRequest will get (before its limit)
    dres,       \* what download_stories produced (NoCall before the call)
    users,      \* the users table: a set of rows
    requests,   \* the requests table: its rows in the order of their ids
    statistics, \* the statistics table: a set of rows
    today,      \* CURRENT_DATE
    hst,        \* the handle_message calls in progress
    received,   \* the number of messages received so far
    lastSave,   \* per user id, the types.User of the latest save_user
    env,        \* os.environ after load_dotenv()
    _config,    \* the module's singleton instance
    gcalls,     \* what the get_config calls so far produced
    user_sessions,  \* the session cache: user id -> session
    nav,        \* the latest callback action and what it reported
    sclosed     \* per user id: closed, and no request since

cvars == <<cin, cres>>
dvars == <<dcap, dactive, dpinned, dres>>
bvars == <<users, requests, statistics, today, hst, received, lastSave>>
gvars == <<env, _config, gcalls>>
svars == <<user_sessions, nav, sclosed>>
vars == <<cin, cres, dcap, dactive, dpinned, dres,
          users, requests, statistics, today, hst, received, lastSave,
          env, _config, gcalls, user_sessions, nav, sclosed>>

(***************************************************************************)
(* Bounds of the model                                                     *)
(***************************************************************************)
\* longest run of digits in a drawn input text
MaxDigits == 16
\* longest list of active stories a target has
MaxActive == 3
\* longest list of pinned stories a target has
MaxPinned == 2
\* largest max_stories_per_request
MaxCap == 4
\* messages received in one run
MaxMessages == 2
\* calendar days a run spans
MaxDay == 2
\* get_config calls in one process
MaxCalls == 3
\* most items a retrieval puts into a session
MaxItems == 6

(***************************************************************************)
(* Program constants                                                       *)
(***************************************************************************)
\* r'^\+?\d{10,15}$'
PhoneMinDigits == 10
PhoneMaxDigits == 15
\* os.getenv('MAX_STORIES_PER_REQUEST', '100')
DefaultMaxStories == 100
\* len(self.userbot.api_hash) < 32
MinApiHashLen == 32

(***************************************************************************)
(* Text helpers                                                            *)
(***************************************************************************)
Digit == {"0", "1", "2", "3", "4", "5", "6", "7", "8", "9"}
Whitespace == {" ", "\n", "\t"}

MinOf(S) == CHOOSE x \in S : \A y \in S : x <= y

RECURSIVE Rep(_, _)
Rep(c, n) == IF n = 0 THEN <<>> ELSE <<c>> \o Rep(c, n - 1)

\* str.strip(): drop the whitespace at both ends
RECURSIVE LStrip(_)
LStrip(s) == IF s # <<>> /\ Head(s) \in Whitespace THEN LStrip(Tail(s)) ELSE s

RECURSIVE RStrip(_)
RStrip(s) ==
    IF s # <<>> /\ s[Len(s)] \in Whitespace
    THEN RStrip(SubSeq(s, 1, Len(s) - 1)) ELSE s

Strip(s) == RStrip(LStrip(s))

\* str.startswith(c) for a one-character prefix
StartsWith(s, c) == s # <<>> /\ s[1] = c

(***************************************************************************)
(* StoriesDownloader.get_entity_from_input                                 *)
(***************************************************************************)
TMe == <<"t", ".", "m", "e", "/">>

\* r't\.me/([^/]+)/s/(\d+)' tried at position i: group(1), or <<>> when the
\* pattern does not match there.  [^/]+ cannot cross a "/", and "/s/" must
\* follow it, so group(1) runs up to the first "/" after "t.me/".
StoryLinkAt(s, i) ==
    LET n == Len(s) IN
    IF i + 4 > n \/ SubSeq(s, i, i + 4) # TMe THEN <<>>
    ELSE LET slashes == {j \in (i + 5)..n : s[j] = "/"} IN
         IF slashes = {} THEN <<>>
         ELSE LET j == MinOf(slashes) IN
              IF /\ j > i + 5
                 /\ j + 3 <= n
                 /\ s[j + 1] = "s"
                 /\ s[j + 2] = "/"
                 /\ s[j + 3] \in Digit
              THEN SubSeq(s, i + 5, j - 1)
              ELSE <<>>

\* re.search(story_link_pattern, input_text): the leftmost match's group(1),
\* or <<>> for no match
StoryLinkSearch(s) ==
    LET hits == {i \in 1..Len(s) : StoryLinkAt(s, i) # <<>>} IN
    IF hits = {} THEN <<>> ELSE StoryLinkAt(s, MinOf(hits))

\* A variant of PhoneMatch in which the leading "+" is required (the "?" of
\* the pattern lost); C1 is checked to tell the two apart.
PhoneMatchPlusRequired(s) ==
    /\ StartsWith(s, "+")
    /\ Len(s) - 1 \in PhoneMinDigits..PhoneMaxDigits
    /\ \A i \in 2..Len(s) : s[i] \in Digit

\* re.match(r'^\+?\d{10,15}$', input_text); "$" also matches just before a
\* final newline
PhoneMatch(s) ==
    LET b == IF StartsWith(s, "+") THEN Tail(s) ELSE s IN
    \E k \in PhoneMinDigits..PhoneMaxDigits :
        /\ k <= Len(b)
        /\ \A i \in 1..k : b[i] \in Digit
        /\ \/ k = Len(b)
           \/ k + 1 = Len(b) /\ b[k + 1] = "\n"

\* What userbot.get_entity can do with one key: hand back an entity, hand
\* back nothing, or raise.
Exceptions ==
    {"UsernameNotOccupiedError", "PhoneNumberInvalidError", "FloodWaitError",
     "ValueError", "TimeoutError"}
ResolveOutcomes == {"entity", "none"} \cup Exceptions

Raises(o) == o \in Exceptions

\* one userbot.get_entity(key) whose failure propagates to the caller
ResolveOnce(key, kind, branch, o) ==
    IF Raises(o)
    THEN [status |-> "raised", exc |-> o, entity |-> "none", kind |-> "none",
          branch |-> branch, calls |-> <<key>>, outcomes |-> <<o>>]
    ELSE [status |-> "returned", exc |-> "none", entity |-> o, kind |-> kind,
          branch |-> branch, calls |-> <<key>>, outcomes |-> <<o>>]

\* A variant of ResolveBare that also retries when the first call hands
\* back nothing
ResolveBareRetryOnNone(s, o1, o2) ==
    IF ~Raises(o1) /\ o1 # "none"
    THEN ResolveOnce(s, "username", "bare", o1)
    ELSE [ResolveOnce(<<"@">> \o s, "username", "bare", o2)
            EXCEPT !.calls = <<s, <<"@">> \o s>>, !.outcomes = <<o1, o2>>]

\* the last branch: try the bare text, and on any exception the text with
\* "@" put before it
ResolveBare(s, o1, o2) ==
    IF ~Raises(o1)
    THEN ResolveOnce(s, "username", "bare", o1)
    ELSE [ResolveOnce(<<"@">> \o s, "username", "bare", o2)
            EXCEPT !.calls = <<s, <<"@">> \o s>>, !.outcomes = <<o1, o2>>]

\* A variant of GetEntityFromInput that tests the "@" prefix before the story
\* link; C2 is checked to tell the two apart.
GetEntityAtFirst(input_text, o1, o2) ==
    LET s == Strip(input_text)
        name == StoryLinkSearch(s)
    IN  IF StartsWith(s, "@") THEN ResolveOnce(s, "username", "at", o1)
        ELSE IF name # <<>> THEN ResolveOnce(name, "direct_link", "link", o1)
        ELSE IF PhoneMatch(s) THEN ResolveOnce(s, "phone", "phone", o1)
        ELSE ResolveBare(s, o1, o2)

\* get_entity_from_input(input_text), o1 and o2 being the outcomes of the
\* first and of the second userbot.get_entity call
GetEntityFromInput(input_text, o1, o2) ==
    LET s == Strip(input_text)
        name == StoryLinkSearch(s)
    IN  IF name # <<>> THEN ResolveOnce(name, "direct_link", "link", o1)
        ELSE IF StartsWith(s, "@") THEN ResolveOnce(s, "username", "at", o1)
        ELSE IF PhoneMatch(s) THEN ResolveOnce(s, "phone", "phone", o1)
        ELSE ResolveBare(s, o1, o2)

(***************************************************************************)
(* Input texts drawn for the classifier                                    *)
(***************************************************************************)
TextPrefixes ==
    { <<>>,
      <<"+">>,
      <<"+", "+">>,
      <<"@">>,
      <<" ">>,
      <<"d", "u", "r", "o", "v">>,
      <<"t", ".", "m", "e", "/", "d", "u", "r", "o", "v", "/", "s", "/">>,
      <<"@", "t", ".", "m", "e", "/", "d", "u", "r", "o", "v", "/", "s", "/">>,
      <<"h", "t", "t", "p", "s", ":", "/", "/", "t", ".", "m", "e", "/",
        "d", "u", "r", "o", "v", "/", "s", "/">>,
      <<"t", ".", "m", "e", "/", "/", "s", "/">>,
      <<"t", ".", "m", "e", "/", "c", "/", "d", "u", "r", "o", "v", "/",
        "s", "/">>,
      <<"t", ".", "m", "e", "/", "d", "u", "r", "o", "v", "/">>,
      <<"t", "e", "l", "e", "g", "r", "a", "m", ".", "m", "e", "/",
        "d", "u", "r", "o", "v", "/", "s", "/">>,
      <<"t", "g", ".", "d", "e", "v", "/", "d", "u", "r", "o", "v", "/",
        "s", "/">> }

TextSuffixes ==
    { <<>>,
      <<" ">>,
      <<"\n">>,
      <<"a">>,
      <<"?", "x", "=", "1">>,
      <<" ", "t", ".", "m", "e", "/", "b", "o", "b", "/", "s", "/", "7">> }

ClassifierTexts ==
    { p \o Rep("1", n) \o q :
        p \in TextPrefixes, n \in 0..MaxDigits, q \in TextSuffixes }

NoCall == [status |-> "none"]

ClassifyInit ==
    /\ cin \in ClassifierTexts
    /\ cres = NoCall

\* the classifier left alone
ClassifyIdle ==
    /\ cin = <<>>
    /\ cres = NoCall

\* one call of get_entity_from_input on the drawn text
Classify ==
    /\ cres = NoCall
    /\ \E o1 \in ResolveOutcomes, o2 \in ResolveOutcomes :
          cres' = GetEntityFromInput(cin, o1, o2)
    /\ UNCHANGED cin
    /\ UNCHANGED <<dvars, bvars, gvars, svars>>

(***************************************************************************)
(* StoriesDownloader.download_stories                                      *)
(***************************************************************************)
Min(a, b) == IF a <= b THEN a ELSE b
Max(a, b) == IF a >= b THEN a ELSE b

\* story.media: absent, or a payload without or with a video / document
\* marker
MediaKinds == {"none", "photo", "video"}
HasMedia(story) == story.media # "none"

\* lists of up to n stories, numbered from base + 1
StoryLists(n, base) ==
    UNION { { [i \in 1..k |-> [id |-> base + i, media |-> f[i]]] :
                f \in [1..k -> MediaKinds] } : k \in 0..n }

\* a reply of the story requests: an exception, nothing, or a list
Replies(n, base) ==
    {[kind |-> "raise"], [kind |-> "none"]}
        \cup {[kind |-> "stories", stories |-> l] : l \in StoryLists(n, base)}

\* list[:n] for n >= 0
Take(l, n) == SubSeq(l, 1, Min(n, Len(l)))

Tagged(stories, type) ==
    [i \in 1..Len(stories) |-> [story |-> stories[i], type |-> type]]

\* lines 288-300: the active stories put on all_stories
ActiveFound(max_stories, active) ==
    IF active.kind = "stories" /\ active.stories # <<>>
    THEN Tagged(SelectSeq(Take(active.stories, max_stories), HasMedia), "active")
    ELSE <<>>

\* GetPinnedStoriesRequest(peer, offset_id=0, limit): the service hands back
\* at most limit stories
PinnedReply(pinned, limit) ==
    IF pinned.kind = "stories"
    THEN [pinned EXCEPT !.stories = Take(pinned.stories, limit)]
    ELSE pinned

\* lines 302-320: the pinned stories put on all_stories
PinnedFound(remaining, pinned) ==
    LET reply == PinnedReply(pinned, remaining) IN
    IF remaining > 0 /\ reply.kind = "stories" /\ reply.stories # <<>>
    THEN Tagged(SelectSeq(reply.stories, HasMedia), "pinned")
    ELSE <<>>

\* all_stories at line 322
AllStories(max_stories, active, pinned) ==
    LET found == ActiveFound(max_stories, active) IN
    found \o PinnedFound(max_stories - Len(found), pinned)

\* userbot.download_media(story.media, file=bytes): bytes, nothing, a
\* FloodWaitError or another exception
DownloadOutcomes == {"ok", "empty", "flood", "error"}

\* lines 334-338
MediaType(story) == IF story.media = "video" THEN "video" ELSE "photo"

Downloaded(item) ==
    [media_type |-> MediaType(item.story), story_type |-> item.type,
     story_id |-> item.story.id]

\* A variant of ItemEvents in which the rate-limit signal is handled like
\* any other exception: logged, no sleep
ItemEventsNoFloodSleep(item, o) ==
    <<[ev |-> "download", id |-> item.story.id]>> \o
        (CASE o \in {"ok", "empty"} -> <<[ev |-> "sleep", id |-> "flood_wait_delay"]>>
           [] OTHER -> <<>>)

\* what one turn of the loop at lines 327-355 does besides appending: the
\* download attempt, then the pause it ends with (none after another
\* exception)
ItemEvents(item, o) ==
    <<[ev |-> "download", id |-> item.story.id]>> \o
        (CASE o \in {"ok", "empty"} -> <<[ev |-> "sleep", id |-> "flood_wait_delay"]>>
           [] o = "flood" -> <<[ev |-> "sleep", id |-> "e.seconds"]>>
           [] OTHER -> <<>>)

\* A variant of DownloadMedia in which an exception of a download ends the
\* loop (the try placed around the loop instead of inside it); C4 is checked
\* to tell the two apart.
RECURSIVE DownloadMediaAbort(_, _, _)
DownloadMediaAbort(items, dl, i) ==
    IF i > Len(items) \/ dl[i] \in {"flood", "error"}
    THEN [downloaded |-> <<>>, events |-> <<>>]
    ELSE LET rest == DownloadMediaAbort(items, dl, i + 1) IN
         [downloaded |-> (IF dl[i] = "ok" THEN <<Downloaded(items[i])>> ELSE <<>>)
                            \o rest.downloaded,
          events |-> ItemEvents(items[i], dl[i]) \o rest.events]

\* lines 326-357: the loop over all_stories from item i on, dl[i] being the
\* outcome of the i-th download
RECURSIVE DownloadMedia(_, _, _)
DownloadMedia(items, dl, i) ==
    IF i > Len(items)
    THEN [downloaded |-> <<>>, events |-> <<>>]
    ELSE LET rest == DownloadMedia(items, dl, i + 1) IN
         [downloaded |-> (IF dl[i] = "ok" THEN <<Downloaded(items[i])>> ELSE <<>>)
                            \o rest.downloaded,
          events |-> ItemEvents(items[i], dl[i]) \o rest.events]

\* download_stories(entity) for a target whose story requests get the
\* replies active and pinned
DownloadStories(max_stories, active, pinned, dl) ==
    LET found == ActiveFound(max_stories, active)
        remaining == max_stories - Len(found)
        all_stories == AllStories(max_stories, active, pinned)
        loop == DownloadMedia(all_stories, dl, 1)
    IN  [status |-> "returned",
         items |-> loop.downloaded,
         events |-> loop.events,
         all_stories |-> all_stories,
         outcomes |-> dl,
         pinned_limit |-> IF remaining > 0 THEN remaining ELSE 0]

DownloadInit ==
    /\ dcap \in 0..MaxCap
    /\ dactive \in Replies(MaxActive, 0)
    /\ dpinned \in Replies(MaxPinned, 100)
    /\ dres = NoCall

\* the downloader left alone
DownloadIdle ==
    /\ dcap = 0
    /\ dactive = [kind |-> "none"]
    /\ dpinned = [kind |-> "none"]
    /\ dres = NoCall

\* one call of download_stories on the drawn target
Download ==
    /\ dres = NoCall
    /\ \E dl \in [1..Len(AllStories(dcap, dactive, dpinned)) -> DownloadOutcomes] :
          dres' = DownloadStories(dcap, dactive, dpinned, dl)
    /\ UNCHANGED <<dcap, dactive, dpinned>>
    /\ UNCHANGED <<cvars, bvars, gvars, svars>>

(***************************************************************************)
(* DatabaseManager: the three tables                                       *)
(*                                                                         *)
(* A timestamp is the calendar day it falls on: the code reads timestamps  *)
(* back only through ::date.  requests.processing_time, a duration that no *)
(* statement reads back, is left out.                                      *)
(***************************************************************************)
\* error_message of a request saved without one
Null == "NULL"

\* the types.User objects messages come from: users 1 and 2 under two names
\* each, user 3
TgUsers ==
    { [id |-> 1, username |-> "ann", first_name |-> "Ann", last_name |-> "A"],
      [id |-> 1, username |-> "anna", first_name |-> "Anna", last_name |-> "B"],
      [id |-> 2, username |-> "bob", first_name |-> "Bob", last_name |-> "C"],
      [id |-> 2, username |-> "bob", first_name |-> "Rob", last_name |-> "C"],
      [id |-> 3, username |-> "cy", first_name |-> "Cy", last_name |-> "D"] }
UserIds == {u.id : u \in TgUsers}

\* rows an earlier run of the bot left in the users table (day 0), user 1
\* deactivated and user 2 blocked since
ExistingUsers ==
    { [user_id |-> 1, username |-> "ann", first_name |-> "Ann", last_name |-> "A",
       is_active |-> FALSE, is_blocked |-> FALSE, created_at |-> 0, last_active |-> 0],
      [user_id |-> 2, username |-> "bob", first_name |-> "Bob", last_name |-> "C",
       is_active |-> TRUE, is_blocked |-> TRUE, created_at |-> 0, last_active |-> 0] }

\* no save_user yet
NoUser == [id |-> 0, username |-> "", first_name |-> "", last_name |-> ""]

\* the users whose messages the handlers are given
HandlerUsers == {u \in TgUsers : u.first_name \in {"Ann", "Bob"}}

\* A variant of SaveUser without the ON CONFLICT clause acting as a plain
\* insert into a table without its primary key; C7 is checked to tell the
\* two apart.
SaveUserPlainInsert(tbl, user, now) ==
    tbl \cup {[user_id |-> user.id, username |-> user.username,
               first_name |-> user.first_name, last_name |-> user.last_name,
               is_active |-> TRUE, is_blocked |-> FALSE,
               created_at |-> now, last_active |-> now]}

\* A variant of SaveUser that replaces the row of the id by a fresh one
SaveUserReplace(tbl, user, now) ==
    {r \in tbl : r.user_id # user.id}
        \cup {[user_id |-> user.id, username |-> user.username,
                first_name |-> user.first_name, last_name |-> user.last_name,
                is_active |-> TRUE, is_blocked |-> FALSE,
                created_at |-> now, last_active |-> now]}

\* save_user: INSERT INTO users ... ON CONFLICT (user_id) DO UPDATE SET ...
SaveUser(tbl, user, now) ==
    IF \E r \in tbl : r.user_id = user.id
    THEN { IF r.user_id = user.id
           THEN [r EXCEPT !.username = user.username,
                          !.first_name = user.first_name,
                          !.last_name = user.last_name,
                          !.last_active = now,
                          !.is_active = TRUE]
           ELSE r : r \in tbl }
    ELSE tbl \cup {[user_id |-> user.id, username |-> user.username,
                    first_name |-> user.first_name, last_name |-> user.last_name,
                    is_active |-> TRUE, is_blocked |-> FALSE,
                    created_at |-> now, last_active |-> now]}

\* save_request: INSERT INTO requests ...; id is the SERIAL key, created_at
\* the column's default
\* (row: the values bound to the statement)
SaveRequest(tbl, row, now) ==
    Append(tbl, [id |-> Len(tbl) + 1, user_id |-> row.user_id,
                 target |-> row.target, request_type |-> row.request_type,
                 stories_count |-> row.stories_count, success |-> row.success,
                 error_message |-> row.error_message, created_at |-> now])

RECURSIVE SumStories(_, _)
SumStories(tbl, date) ==
    IF tbl = <<>> THEN 0
    ELSE (IF Head(tbl).created_at = date THEN Head(tbl).stories_count ELSE 0)
            + SumStories(Tail(tbl), date)

\* the SELECT of update_daily_stats, run on day date
DailyStats(usrs, reqs, date) ==
    LET todays == {i \in 1..Len(reqs) : reqs[i].created_at = date} IN
    [date |-> date,
     total_users |-> Cardinality(usrs),
     active_users |-> Cardinality({r \in usrs : r.last_active = date}),
     total_requests |-> Cardinality(todays),
     successful_requests |-> Cardinality({i \in todays : reqs[i].success}),
     failed_requests |-> Cardinality({i \in todays : ~reqs[i].success}),
     total_stories |-> SumStories(reqs, date)]

\* A variant of UpdateDailyStats that keeps the row a date already has (ON
\* CONFLICT DO NOTHING); C8 is checked to tell the two apart.
UpdateDailyStatsKeepOld(stats, usrs, reqs, date) ==
    IF \E r \in stats : r.date = date
    THEN stats
    ELSE stats \cup {DailyStats(usrs, reqs, date)}

\* update_daily_stats: INSERT INTO statistics ... SELECT CURRENT_DATE, ...
\* ON CONFLICT (date) DO UPDATE SET ...
UpdateDailyStats(stats, usrs, reqs, date) ==
    {r \in stats : r.date # date} \cup {DailyStats(usrs, reqs, date)}

(***************************************************************************)
(* handle_message                                                          *)
(***************************************************************************)
Handlers == {"h1", "h2"}

\* the message texts the handlers are given: a command, a bare username, a
\* phone number and a story link
HandlerTexts ==
    { <<"/", "x">>,
      <<"d", "u", "r", "o", "v", " ">>,
      <<"+">> \o Rep("1", PhoneMinDigits),
      TMe \o <<"d", "u", "r", "o", "v", "/", "s", "/", "1">> }

\* the targets the handlers download from
HandlerActive ==
    { [kind |-> "raise"], [kind |-> "none"],
      [kind |-> "stories", stories |-> <<[id |-> 1, media |-> "none"]>>],
      [kind |-> "stories", stories |-> <<[id |-> 1, media |-> "video"]>>] }
HandlerPinned ==
    { [kind |-> "raise"], [kind |-> "none"],
      [kind |-> "stories", stories |-> <<[id |-> 101, media |-> "photo"]>>] }

\* a call of the Bot API, or a statement sent to the database, succeeds or
\* raises
CallOutcomes == {"ok", "raise"}

\* A variant of ExcText that saves no text when str(e) is empty
ExcTextOrNull(exc) ==
    CASE exc = "ValueError" -> "No user has this username"
      [] exc = "TimeoutError" -> "NULL"
      [] exc = "TelegramBadRequest" -> "Telegram server says - Bad Request"
      [] exc = "PostgresError" -> "connection is closed"
      [] OTHER -> exc

\* str(e) of the exceptions that reach "except Exception"
ExcText(exc) ==
    CASE exc = "ValueError" -> "No user has this username"
      [] exc = "TimeoutError" -> ""
      [] exc = "TelegramBadRequest" -> "Telegram server says - Bad Request"
      [] exc = "PostgresError" -> "connection is closed"
      [] OTHER -> exc

\* the same error text on both paths
NotFoundTextAsNoStories == "No stories found"
\* the texts the handler writes into error_message
NotFoundText == "User not found"
NoStoriesText == "No stories found"

\* the except clauses of handle_message: the request_type and error_message
\* they save, and what the user is told
ExceptRow(exc) ==
    CASE exc = "UsernameNotOccupiedError" ->
            [request_type |-> "username", error_message |-> "Username not found",
             reply |-> "username_not_found"]
      [] exc = "PhoneNumberInvalidError" ->
            [request_type |-> "phone", error_message |-> "Invalid phone number",
             reply |-> "phone_invalid"]
      [] exc = "FloodWaitError" ->
            [request_type |-> "unknown", error_message |-> "FloodWait: e.seconds",
             reply |-> "wait"]
      [] OTHER ->
            [request_type |-> "unknown", error_message |-> ExcText(exc),
             reply |-> "error"]


\* a handler between two messages
Idle ==
    [pc |-> "idle", outcome |-> "none", user |-> 0, text |-> <<>>,
     kind |-> "none", resolved |-> FALSE, n |-> 0,
     attempted |-> 0, exc |-> "none", reply |-> "none", rows |-> 0,
     lastrow |-> 0, genuine |-> FALSE]

Finished(s, outcome) == [s EXCEPT !.pc = "finished", !.outcome = outcome]

\* the handler state in which exception exc is on its way to the except
\* clauses: of the locals, those clauses read only the message
Failing(s, exc) ==
    [Idle EXCEPT !.pc = "except", !.exc = exc, !.user = s.user,
                 !.text = s.text, !.rows = s.rows,
                 !.lastrow = s.lastrow, !.resolved = s.resolved]

\* the number of media-bearing stories of a reply
StoriesWithMedia(reply) ==
    IF reply.kind = "stories"
    THEN Len(SelectSeq(reply.stories, HasMedia))
    ELSE 0

\* what handle_message sees of a get_entity_from_input call
ResolveResults(text) ==
    { LET r == GetEntityFromInput(text, o1, o2) IN
      [status |-> r.status, entity |-> r.entity, kind |-> r.kind, exc |-> r.exc] :
        o1 \in ResolveOutcomes, o2 \in ResolveOutcomes }

\* what handle_message sees of one download_stories call: len(stories);
\* genuine tells an empty result of a target that holds no media-bearing
\* story from one left empty by a failed request or failed downloads
DownloadSeen(active, pinned, dl) ==
    LET d == DownloadStories(DefaultMaxStories, active, pinned, dl) IN
    [n |-> Len(d.items),
     genuine |->
        /\ d.items = <<>>
        /\ active.kind # "raise"
        /\ pinned.kind # "raise"
        /\ \A i \in 1..Len(dl) : dl[i] = "ok"
        /\ StoriesWithMedia(active) + StoriesWithMedia(pinned) = 0]

HandlerDownloads ==
    UNION { { DownloadSeen(active, pinned, dl) :
                dl \in [1..Len(AllStories(DefaultMaxStories, active, pinned))
                          -> DownloadOutcomes] } :
            active \in HandlerActive, pinned \in HandlerPinned }

\* the awaited Bot API call that raises, if one does: the status edit after
\* the resolution, the one after the download, or one of the two calls that
\* follow the send loop
ApiFailures == {"none", "edit_resolved", "edit_downloaded", "closing"}

BotUnchanged == UNCHANGED <<users, requests, statistics, today, received, lastSave>>

\* lines 471-482: save_user, the command test, the first answer
Receive(h) ==
    /\ hst[h].pc = "idle"
    /\ received < MaxMessages
    /\ received' = received + 1
    /\ \E user \in HandlerUsers, text \in HandlerTexts,
          db \in CallOutcomes, api \in CallOutcomes :
          LET m == [Idle EXCEPT !.user = user.id, !.text = Strip(text)]
          IN  IF db = "raise"
              THEN /\ hst' = [hst EXCEPT ![h] = Finished(m, "crashed")]
                   /\ UNCHANGED <<users, lastSave>>
              ELSE /\ users' = SaveUser(users, user, today)
                   /\ lastSave' = [lastSave EXCEPT ![user.id] = user]
                   /\ hst' = [hst EXCEPT ![h] =
                         IF StartsWith(m.text, "/") THEN Finished(m, "command")
                         ELSE IF api = "raise" THEN Finished(m, "crashed")
                         ELSE [m EXCEPT !.pc = "try", !.reply = "searching"]]
    /\ UNCHANGED <<requests, statistics, today>>
    /\ UNCHANGED <<cvars, dvars, gvars, svars>>

\* the commands that have a handler of their own; the dispatcher hands a
\* message to the first handler whose filter matches, so these never reach
\* handle_message
Commands == {"start", "help", "stats", "about"}

\* cmd_start and cmd_stats call save_user first
SavingCommands == {"start", "stats"}

\* message.text of a command
CommandText(cmd) ==
    CASE cmd = "start" -> <<"/", "s", "t", "a", "r", "t">>
      [] cmd = "help" -> <<"/", "h", "e", "l", "p">>
      [] cmd = "stats" -> <<"/", "s", "t", "a", "t", "s">>
      [] cmd = "about" -> <<"/", "a", "b", "o", "u", "t">>

\* lines 360-467: cmd_start, cmd_help, cmd_stats, cmd_about.  What follows
\* the save_user of a handler (the two SELECTs of cmd_stats, the answer)
\* writes no table.
Command(h) ==
    /\ hst[h].pc = "idle"
    /\ received < MaxMessages
    /\ received' = received + 1
    /\ \E user \in HandlerUsers, cmd \in Commands,
          fail \in {"none", "save_user", "later"} :
          LET m == [Idle EXCEPT !.user = user.id, !.text = CommandText(cmd)]
          IN  IF cmd \in SavingCommands /\ fail = "save_user"
              THEN /\ hst' = [hst EXCEPT ![h] = Finished(m, "crashed")]
                   /\ UNCHANGED <<users, lastSave>>
              ELSE /\ IF cmd \in SavingCommands
                      THEN /\ users' = SaveUser(users, user, today)
                           /\ lastSave' = [lastSave EXCEPT ![user.id] = user]
                      ELSE UNCHANGED <<users, lastSave>>
                   /\ hst' = [hst EXCEPT ![h] =
                         IF fail = "later" THEN Finished(m, "crashed")
                         ELSE Finished(m, "command")]
    /\ UNCHANGED <<requests, statistics, today>>
    /\ UNCHANGED <<cvars, dvars, gvars, svars>>

\* lines 484-539, from the try to the next statement sent to the database:
\* get_entity_from_input, download_stories, the send loop (one attempt for
\* each story; a failed send is logged and changes nothing) and the status
\* texts between them.  None of it reads or writes the tables.
Process(h) ==
    /\ hst[h].pc = "try"
    /\ \E r \in ResolveResults(hst[h].text), d \in HandlerDownloads,
          fail \in ApiFailures :
          LET s == hst[h]
              k == [s EXCEPT !.kind = r.kind, !.resolved = r.entity = "entity"]
              f == [k EXCEPT !.n = d.n, !.genuine = d.genuine]
          IN  hst' = [hst EXCEPT ![h] =
                IF r.status = "raised" THEN Failing(s, r.exc)
                ELSE IF fail = "edit_resolved" THEN Failing(k, "TelegramBadRequest")
                ELSE IF r.entity = "none"
                THEN [k EXCEPT !.pc = "save_notfound", !.reply = "not_found"]
                ELSE IF fail = "edit_downloaded" THEN Failing(k, "TelegramBadRequest")
                ELSE IF d.n = 0
                THEN [f EXCEPT !.pc = "save_nostories", !.reply = "no_stories"]
                ELSE IF fail = "closing" THEN Failing(k, "TelegramBadRequest")
                ELSE [f EXCEPT !.pc = "save_success", !.reply = "success",
                               !.attempted = d.n]]
    /\ BotUnchanged
    /\ UNCHANGED <<cvars, dvars, gvars, svars>>

\* the arguments of a save_request call of handler state s
RequestArgs(s, request_type, stories_count, success, error_message) ==
    [user_id |-> s.user, target |-> s.text, request_type |-> request_type,
     stories_count |-> stories_count, success |-> success,
     error_message |-> error_message]

\* handler state s after its save_request has inserted a row
Saved(s) == [s EXCEPT !.rows = s.rows + 1, !.lastrow = Len(requests) + 1]

\* one save_request of handler h inside the try: the row is inserted and
\* the handler goes on at pc (finished with that outcome, if a return
\* follows), or the statement raises
SaveInTry(h, stories_count, success, error_message, pc, outcome) ==
    \E db \in CallOutcomes :
       LET s == hst[h] IN
       IF db = "raise"
       THEN /\ hst' = [hst EXCEPT ![h] = Failing(s, "PostgresError")]
            /\ UNCHANGED requests
       ELSE /\ requests' = SaveRequest(requests,
                   RequestArgs(s, s.kind, stories_count, success, error_message),
                   today)
            /\ hst' = [hst EXCEPT ![h] =
                          [Saved(s) EXCEPT !.pc = pc, !.outcome = outcome]]

\* lines 490-495
SaveNotFound(h) ==
    /\ hst[h].pc = "save_notfound"
    /\ SaveInTry(h, 0, FALSE, NotFoundText, "finished", "not_found")
    /\ UNCHANGED <<users, statistics, today, received, lastSave>>
    /\ UNCHANGED <<cvars, dvars, gvars, svars>>

\* lines 504-509
SaveNoStories(h) ==
    /\ hst[h].pc = "save_nostories"
    /\ SaveInTry(h, 0, FALSE, NoStoriesText, "finished", "no_stories")
    /\ UNCHANGED <<users, statistics, today, received, lastSave>>
    /\ UNCHANGED <<cvars, dvars, gvars, svars>>

\* lines 541-545
SaveSuccess(h) ==
    /\ hst[h].pc = "save_success"
    /\ SaveInTry(h, hst[h].n, TRUE, Null, "update_stats", "none")
    /\ UNCHANGED <<users, statistics, today, received, lastSave>>
    /\ UNCHANGED <<cvars, dvars, gvars, svars>>

\* line 548
UpdateStats(h) ==
    /\ hst[h].pc = "update_stats"
    /\ \E db \in CallOutcomes :
          IF db = "raise"
          THEN /\ hst' = [hst EXCEPT ![h] = Failing(hst[h], "PostgresError")]
               /\ UNCHANGED statistics
          ELSE /\ statistics' = UpdateDailyStats(statistics, users, requests, today)
               /\ hst' = [hst EXCEPT ![h] = Finished(hst[h], "success")]
    /\ UNCHANGED <<users, requests, today, received, lastSave>>
    /\ UNCHANGED <<cvars, dvars, gvars, svars>>

\* lines 550-578: the except clause that takes the exception: it edits the
\* status text and saves a request; an exception of either leaves the
\* handler
Except(h) ==
    /\ hst[h].pc = "except"
    /\ \E api \in CallOutcomes, db \in CallOutcomes :
          LET s == hst[h]
              e == ExceptRow(s.exc)
          IN  IF api = "raise" \/ db = "raise"
              THEN /\ hst' = [hst EXCEPT ![h] = Finished(s, "crashed")]
                   /\ UNCHANGED requests
              ELSE /\ requests' = SaveRequest(requests,
                         RequestArgs(s, e.request_type, 0, FALSE, e.error_message),
                         today)
                   /\ hst' = [hst EXCEPT ![h] =
                         Finished([Saved(s) EXCEPT !.reply = e.reply], "failed")]
    /\ UNCHANGED <<users, statistics, today, received, lastSave>>
    /\ UNCHANGED <<cvars, dvars, gvars, svars>>

\* the handler has returned (or its exception has reached the dispatcher)
\* and takes the next message
Return(h) ==
    /\ hst[h].pc = "finished"
    /\ hst' = [hst EXCEPT ![h] = Idle]
    /\ BotUnchanged
    /\ UNCHANGED <<cvars, dvars, gvars, svars>>

\* midnight
NextDay ==
    /\ today < MaxDay
    /\ today' = today + 1
    /\ UNCHANGED <<users, requests, statistics, hst, received, lastSave>>
    /\ UNCHANGED <<cvars, dvars, gvars, svars>>

BotInit ==
    /\ users = {}
    /\ requests = <<>>
    /\ statistics = {}
    /\ today = 1
    /\ hst = [h \in Handlers |-> Idle]
    /\ received = 0
    /\ lastSave = [u \in UserIds |-> NoUser]

\* one DatabaseManager.save_user call, whoever makes it: the statement is
\* one atomic upsert, so calls of concurrent handlers take effect one after
\* the other
CallSaveUser ==
    /\ \E user \in TgUsers :
          /\ users' = SaveUser(users, user, today)
          /\ lastSave' = [lastSave EXCEPT ![user.id] = user]
    /\ UNCHANGED <<requests, statistics, today, hst, received>>
    /\ UNCHANGED <<cvars, dvars, gvars, svars>>

(***************************************************************************)
(* config.py: Config.load, Config.validate, get_config                     *)
(***************************************************************************)
\* an environment variable: unset, or set to a text
Unset == [set |-> FALSE, val |-> <<>>]
SetTo(s) == [set |-> TRUE, val |-> s]

\* os.getenv(name): None when unset; None and '' are falsy
Falsy(v) == ~v.set \/ v.val = <<>>
\* os.getenv(name, default)
GetEnv(v, default) == IF v.set THEN v.val ELSE default

DigitValue(c) == CHOOSE k \in 0..9 : ToString(k) = c

RECURSIVE DigitsValue(_)
DigitsValue(s) ==
    IF s = <<>> THEN 0
    ELSE 10 * DigitsValue(SubSeq(s, 1, Len(s) - 1)) + DigitValue(s[Len(s)])

\* int(text): surrounding whitespace and one sign are accepted, then digits
\* only; anything else raises ValueError
ParseInt(text) ==
    LET s == Strip(text)
        signed == s # <<>> /\ s[1] \in {"+", "-"}
        digits == IF signed THEN Tail(s) ELSE s
    IN  IF digits = <<>> \/ \E i \in 1..Len(digits) : digits[i] \notin Digit
        THEN [ok |-> FALSE, val |-> 0]
        ELSE [ok |-> TRUE,
              val |-> IF signed /\ s[1] = "-" THEN 0 - DigitsValue(digits)
                      ELSE DigitsValue(digits)]

Raised(message, items) ==
    [status |-> "raised", exc |-> "ValueError", message |-> message, items |-> items]

\* Config.load: BotConfig.from_env, UserbotConfig.from_env,
\* DatabaseConfig.from_env in this order; the first ValueError ends it
Load(e) ==
    IF Falsy(e.BOT_TOKEN)
    THEN Raised("BOT_TOKEN is not set in .env file", <<>>)
    ELSE IF Falsy(e.USERBOT_API_ID) \/ Falsy(e.USERBOT_API_HASH) \/ Falsy(e.USERBOT_PHONE)
    THEN Raised("USERBOT_API_ID, USERBOT_API_HASH, and USERBOT_PHONE must be set", <<>>)
    ELSE IF ~ParseInt(e.USERBOT_API_ID.val).ok
    THEN Raised("invalid literal for int() with base 10", <<>>)
    ELSE [status |-> "loaded",
          config |-> [token |-> e.BOT_TOKEN.val,
                      api_id |-> ParseInt(e.USERBOT_API_ID.val).val,
                      api_hash |-> e.USERBOT_API_HASH.val,
                      phone |-> e.USERBOT_PHONE.val,
                      password |-> GetEnv(e.DB_PASS, <<>>)]]

\* Config.validate: the errors list
Validate(c) ==
    (IF c.token = <<>> THEN <<"Bot token is empty">> ELSE <<>>)
    \o (IF c.api_id <= 0 THEN <<"Invalid API ID">> ELSE <<>>)
    \o (IF Len(c.api_hash) < MinApiHashLen THEN <<"Invalid API Hash">> ELSE <<>>)
    \o (IF ~StartsWith(c.phone, "+") THEN <<"Phone number must start with +">> ELSE <<>>)
    \o (IF c.password = <<>> THEN <<"Database password is empty">> ELSE <<>>)

\* _config is None
None == [status |-> "None"]

\* get_config: the instance is assigned before validate() runs
GetConfig(inst, e) ==
    IF inst = None
    THEN LET l == Load(e) IN
         IF l.status = "raised" THEN [inst |-> inst, result |-> l]
         ELSE IF Validate(l.config) # <<>>
         THEN [inst |-> l.config,
               result |-> Raised("Configuration errors:", Validate(l.config))]
         ELSE [inst |-> l.config,
               result |-> [status |-> "returned", config |-> l.config]]
    ELSE [inst |-> inst, result |-> [status |-> "returned", config |-> inst]]

Txt3 == <<"t", "o", "k">>
ApiIdTexts == { <<"1", "2">>, <<"0">>, <<"-", "5">>, <<"a", "b">>, <<" ", "7">> }
PhoneTexts == { <<"+", "9", "9", "8">>, <<"9", "9", "8">> }

\* the environments a process is started in
Environments ==
    [ BOT_TOKEN : {Unset, SetTo(<<>>), SetTo(Txt3)},
      USERBOT_API_ID : {Unset} \cup {SetTo(s) : s \in ApiIdTexts},
      USERBOT_API_HASH : {Unset, SetTo(Rep("a", MinApiHashLen)),
                          SetTo(Rep("a", MinApiHashLen - 1))},
      USERBOT_PHONE : {Unset} \cup {SetTo(s) : s \in PhoneTexts},
      DB_PASS : {Unset, SetTo(<<>>), SetTo(Txt3)} ]

ConfigIdle ==
    /\ env = [n \in {} |-> Unset]
    /\ _config = None
    /\ gcalls = <<>>

ConfigInit ==
    /\ env \in Environments
    /\ _config = None
    /\ gcalls = <<>>

\* one get_config() call
CallGetConfig ==
    /\ Len(gcalls) < MaxCalls
    /\ LET r == GetConfig(_config, env) IN
       /\ _config' = r.inst
       /\ gcalls' = Append(gcalls, r.result)
    /\ UNCHANGED env
    /\ UNCHANGED <<cvars, dvars, bvars, svars>>

(***************************************************************************)
(* The delivery layer's session cache and its callback actions (spec 4.3)  *)
(***************************************************************************)
\* "Page size is fixed at 5 items."
PageSize == 5

SessionUsers == {1, 2}
Categories == {"active", "pinned", "all"}

\* no entry for the user
NoSession == [open |-> FALSE]

\* the StoryItems of a retrieval, numbered in their order
Items(n) == [i \in 1..n |-> i]

\* "Total pages = ceil(total items / page size)."
TotalPages(items) == (Len(items) + PageSize - 1) \div PageSize

\* "Page slice = items[page*5 : min((page+1)*5, total)]."
PageSlice(items, page) ==
    SubSeq(items, page * PageSize + 1, Min((page + 1) * PageSize, Len(items)))

\* "overwritten by any new request from the same user"
StoreSession(sessions, u, items, category) ==
    [sessions EXCEPT ![u] =
        [open |-> TRUE, items |-> items, page |-> 0, category |-> category]]

\* a close that rewinds the session and keeps the entry
DiscardSessionRewind(sessions, u) ==
    [sessions EXCEPT ![u] = IF @.open THEN [@ EXCEPT !.page = 0] ELSE @]

\* "Close action: discard the user's session entry entirely"
DiscardSession(sessions, u) == [sessions EXCEPT ![u] = NoSession]

\* what a callback action leaves in nav
Action(u, action, outcome, shown) ==
    [user |-> u, action |-> action, outcome |-> outcome, shown |-> shown,
     before |-> user_sessions, after_close |-> sclosed[u]]

SessionIdle ==
    /\ user_sessions = [u \in SessionUsers |-> NoSession]
    /\ nav = [action |-> "none"]
    /\ sclosed = [u \in SessionUsers |-> FALSE]

\* dl_{category}:{target_text}: a retrieval with items stores the session
\* and shows page 0
DlAction(u) ==
    /\ \E n \in 1..MaxItems, category \in Categories :
          /\ user_sessions' = StoreSession(user_sessions, u, Items(n), category)
          /\ nav' = Action(u, "dl", "rendered", PageSlice(Items(n), 0))
    /\ sclosed' = [sclosed EXCEPT ![u] = FALSE]
    /\ UNCHANGED <<cvars, dvars, bvars, gvars>>

\* page_{user_id}_{page_number}: "if the session is absent, any page/close
\* action must report a session expired outcome without attempting a
\* render"; a page send may fail as a whole
PageAction(u) ==
    /\ \E page \in 0..((MaxItems - 1) \div PageSize), sent \in BOOLEAN :
          LET s == user_sessions[u] IN
          IF ~s.open
          THEN /\ nav' = Action(u, "page", "session expired", <<>>)
               /\ UNCHANGED user_sessions
          ELSE /\ page < TotalPages(s.items)
               /\ IF sent
                  THEN /\ nav' = Action(u, "page", "rendered", PageSlice(s.items, page))
                       /\ user_sessions' = [user_sessions EXCEPT ![u].page = page]
                  ELSE /\ nav' = Action(u, "page", "send failed", <<>>)
                       /\ UNCHANGED user_sessions
    /\ UNCHANGED sclosed
    /\ UNCHANGED <<cvars, dvars, bvars, gvars>>

\* close_{user_id}
CloseAction(u) ==
    /\ IF ~user_sessions[u].open
       THEN /\ nav' = Action(u, "close", "session expired", <<>>)
            /\ UNCHANGED user_sessions
       ELSE /\ nav' = Action(u, "close", "closed", <<>>)
            /\ user_sessions' = DiscardSession(user_sessions, u)
    /\ sclosed' = [sclosed EXCEPT ![u] = @ \/ user_sessions[u].open]
    /\ UNCHANGED <<cvars, dvars, bvars, gvars>>

(***************************************************************************)
(* Specifications                                                          *)
(***************************************************************************)
InitClassify == ClassifyInit /\ DownloadIdle /\ BotInit /\ ConfigIdle /\ SessionIdle
NextClassify == Classify
SpecClassify == InitClassify /\ [][NextClassify]_vars

InitDownload == DownloadInit /\ ClassifyIdle /\ BotInit /\ ConfigIdle /\ SessionIdle
NextDownload == Download
SpecDownload == InitDownload /\ [][NextDownload]_vars

\* the bot: handle_message calls interleaved at their awaits
Init ==
    /\ BotInit
    /\ ClassifyIdle
    /\ DownloadIdle
    /\ ConfigIdle
    /\ SessionIdle
Next ==
    \/ \E h \in Handlers :
          \/ Command(h)
          \/ Receive(h)
          \/ Process(h)
          \/ SaveNotFound(h)
          \/ SaveNoStories(h)
          \/ SaveSuccess(h)
          \/ UpdateStats(h)
          \/ Except(h)
          \/ Return(h)
    \/ NextDay
Spec == Init /\ [][Next]_vars

\* the users table under save_user calls; init_db keeps the tables it finds
\* (CREATE TABLE IF NOT EXISTS), so the process may start on rows of an
\* earlier run, a deactivated or a blocked user among them
InitDb ==
    /\ \E kept \in SUBSET ExistingUsers :
          /\ users = kept
          /\ lastSave = [id \in UserIds |->
                IF \E r \in kept : r.user_id = id
                THEN LET r == CHOOSE r \in kept : r.user_id = id IN
                     [id |-> id, username |-> r.username,
                      first_name |-> r.first_name, last_name |-> r.last_name]
                ELSE NoUser]
    /\ requests = <<>>
    /\ statistics = {}
    /\ today = 1
    /\ hst = [h \in Handlers |-> Idle]
    /\ received = 0
    /\ ClassifyIdle
    /\ DownloadIdle
    /\ ConfigIdle
    /\ SessionIdle
NextDb == CallSaveUser \/ NextDay
SpecDb == InitDb /\ [][NextDb]_vars

\* process start-up
InitConfig == ConfigInit /\ ClassifyIdle /\ DownloadIdle /\ BotInit /\ SessionIdle
NextConfig == CallGetConfig
SpecConfig == InitConfig /\ [][NextConfig]_vars

\* the callback actions of the users
InitSession == SessionIdle /\ ClassifyIdle /\ DownloadIdle /\ BotInit /\ ConfigIdle
NextSession == \E u \in SessionUsers : DlAction(u) \/ PageAction(u) \/ CloseAction(u)
SpecSession == InitSession /\ [][NextSession]_vars

(***************************************************************************)
(* Claims about the classifier (checked under SpecClassify)                *)
(***************************************************************************)
\* the phone shape as the claim words it: an optional "+", then 10 to 15
\* digits and nothing else
IsPhoneText(s) ==
    LET b == IF s # <<>> /\ s[1] = "+" THEN SubSeq(s, 2, Len(s)) ELSE s IN
    /\ Len(b) >= 10
    /\ Len(b) <= 15
    /\ \A i \in 1..Len(b) : b[i] \in Digit

\* C1: every text that, trimmed, is an optional "+" and 10 to 15 digits is
\* resolved in the phone branch, by one call on the trimmed text; a returned
\* kind is "phone", never "username" or "direct_link", and the bare-username
\* fallback is not entered.
C1_PhoneKind ==
    (cres # NoCall /\ IsPhoneText(Strip(cin))) =>
        /\ cres.branch = "phone"
        /\ cres.calls = <<Strip(cin)>>
        /\ cres.status = "returned" => cres.kind = "phone"
        /\ cres.kind \notin {"username", "direct_link"}

\* a ten-digit text without "+" came back as a phone
C1_Witness ==
    /\ cin = Rep("1", 10) \o <<"\n">>
    /\ cres # NoCall
    /\ cres.status = "returned"
    /\ cres.kind = "phone"
    /\ cres.entity = "entity"

NoSlash(s) == \A k \in 1..Len(s) : s[k] # "/"

\* s holds "t.me/" name "/s/" digit at position i
StoryLinkOfAt(s, name, i) ==
    LET j == i + 5 + Len(name) IN
    /\ name # <<>>
    /\ NoSlash(name)
    /\ j + 3 <= Len(s)
    /\ SubSeq(s, i, j - 1) = TMe \o name
    /\ SubSeq(s, j, j + 2) = <<"/", "s", "/">>
    /\ s[j + 3] \in Digit

\* the l characters that follow "t.me/" at position i
NameAt(s, i, l) == SubSeq(s, i + 5, i + 4 + l)

HasStoryLinkAt(s, i) ==
    \E l \in 1..(Len(s) - i - 4) : StoryLinkOfAt(s, NameAt(s, i, l), i)

HasStoryLink(s) == \E i \in 1..Len(s) : HasStoryLinkAt(s, i)

\* name is the name of the leftmost t.me permalink of s
LeftmostStoryLink(s, name) ==
    \E i \in 1..Len(s) :
        /\ StoryLinkOfAt(s, name, i)
        /\ \A k \in 1..(i - 1) : ~HasStoryLinkAt(s, k)

\* s holds domain "/" name "/s/" digit, the domain being a run of
\* characters with a "." in it and no "/" or whitespace
HasPermalinkShape(s) ==
    \E a \in 1..Len(s), b \in 1..Len(s), c \in 1..Len(s) :
        /\ a < b
        /\ b + 1 < c
        /\ c + 3 <= Len(s)
        /\ \A k \in a..(b - 1) : s[k] \notin ({"/"} \cup Whitespace)
        /\ \E k \in a..(b - 1) : s[k] = "."
        /\ s[b] = "/"
        /\ NoSlash(SubSeq(s, b + 1, c - 1))
        /\ SubSeq(s, c, c + 2) = <<"/", "s", "/">>
        /\ s[c + 3] \in Digit

\* C2 as stated: a permalink under any domain is taken as a direct link.
C2_Original ==
    (cres # NoCall /\ HasPermalinkShape(Strip(cin))) =>
        /\ cres.branch = "link"
        /\ cres.status = "returned" => cres.kind = "direct_link"

\* C2, amended: every text holding t.me/name/s/<digits>, with or without a
\* query string after it, is resolved in the permalink branch, by one call
\* on the name of the leftmost such permalink, and a returned kind is
\* "direct_link"; the "@", phone and bare-username rules are not applied.
C2_DirectLink ==
    (cres # NoCall /\ HasStoryLink(Strip(cin))) =>
        /\ cres.branch = "link"
        /\ Len(cres.calls) = 1
        /\ LeftmostStoryLink(Strip(cin), cres.calls[1])
        /\ cres.status = "returned" => cres.kind = "direct_link"
        /\ cres.kind \notin {"username", "phone"}

\* "@t.me/durov/s/1?x=1" came back as a direct link to durov
C2_Witness ==
    /\ cin = <<"@">> \o TMe \o <<"d", "u", "r", "o", "v", "/", "s", "/", "1",
                                "?", "x", "=", "1">>
    /\ cres # NoCall
    /\ cres.status = "returned"
    /\ cres.kind = "direct_link"
    /\ cres.calls = << <<"d", "u", "r", "o", "v">> >>

\* the trimmed text falls under one of the first three rules
MatchesRule(s) == HasStoryLink(s) \/ (s # <<>> /\ s[1] = "@") \/ IsPhoneText(s)

\* the userbot.get_entity calls of the call: one for a text under the first
\* three rules; otherwise the bare text and, exactly when that call raised,
\* the text with "@" before it, with kind 'username' on success
ResolvedOnceOrRetried ==
    LET s == Strip(cin)
        n == Len(cres.calls)
    IN  IF MatchesRule(s)
        THEN n = 1
        ELSE /\ cres.calls[1] = s
             /\ n = (IF cres.outcomes[1] \in Exceptions THEN 2 ELSE 1)
             /\ n = 2 => cres.calls[2] = <<"@">> \o s
             /\ cres.status = "returned" => cres.kind = "username"

\* the last attempt failed
LastFailed == cres.outcomes[Len(cres.outcomes)] \in Exceptions

\* what the user is told when the target was not found
NotFoundReplies == {"not_found", "username_not_found", "phone_invalid"}

\* C12 as stated: a text under none of the first three rules is resolved
\* bare and, only if that fails, once more with "@" before it, kind
\* 'username' on success; a text under one of them is resolved once; a
\* failure of the last attempt reaches the caller, which reports target not
\* found.
C12_Original ==
    cres # NoCall =>
        /\ ResolvedOnceOrRetried
        /\ LastFailed =>
              /\ cres.status = "raised"
              /\ ExceptRow(cres.exc).reply \in NotFoundReplies

\* C12, amended: as above, but the failure of the last attempt reaches the
\* caller as the exception of that attempt, and handle_message reports it by
\* its class: username not found for UsernameNotOccupiedError, invalid phone
\* number for PhoneNumberInvalidError, rate-limited for FloodWaitError and an
\* unclassified failure for any other exception.
C12_RetryOnce ==
    cres # NoCall =>
        /\ ResolvedOnceOrRetried
        /\ LastFailed =>
              /\ cres.status = "raised"
              /\ cres.exc = cres.outcomes[Len(cres.outcomes)]
              /\ ExceptRow(cres.exc).reply =
                    (CASE cres.exc = "UsernameNotOccupiedError" -> "username_not_found"
                       [] cres.exc = "PhoneNumberInvalidError" -> "phone_invalid"
                       [] cres.exc = "FloodWaitError" -> "wait"
                       [] OTHER -> "error")
        /\ ~LastFailed => cres.status = "returned"

\* the bare text failed with ValueError, the retry with "@" found the user
C12_Witness ==
    /\ cin = <<"d", "u", "r", "o", "v">>
    /\ cres # NoCall
    /\ cres.outcomes = <<"ValueError", "entity">>
    /\ cres.calls = << <<"d", "u", "r", "o", "v">>, <<"@", "d", "u", "r", "o", "v">> >>
    /\ cres.status = "returned"
    /\ cres.kind = "username"

(***************************************************************************)
(* Claims about download_stories (checked under SpecDownload)              *)
(***************************************************************************)
\* the number of media-bearing stories a reply holds
MediaCount(reply) ==
    IF reply.kind = "stories"
    THEN Cardinality({i \in 1..Len(reply.stories) : reply.stories[i].media # "none"})
    ELSE 0

AllOk(res) == \A i \in 1..Len(res.outcomes) : res.outcomes[i] = "ok"

\* C3 as stated: with N media-bearing active and M media-bearing pinned
\* stories, no request failing and every download succeeding, the result is
\* min(N, C) active items followed by min(M, max(0, C - N)) pinned items, at
\* most C in all, and the pinned stories are asked for only when the active
\* ones left room.
C3_Original ==
    (/\ dres # NoCall
     /\ dactive.kind # "raise"
     /\ dpinned.kind # "raise"
     /\ AllOk(dres)) =>
        LET N == MediaCount(dactive)
            M == MediaCount(dpinned)
            na == IF N <= dcap THEN N ELSE dcap
            room == IF dcap - N >= 0 THEN dcap - N ELSE 0
            np == IF M <= room THEN M ELSE room
        IN  /\ Len(dres.items) = na + np
            /\ \A i \in 1..Len(dres.items) :
                  dres.items[i].story_type = IF i <= na THEN "active" ELSE "pinned"
            /\ Len(dres.items) <= dcap
            /\ dres.pinned_limit > 0 => na < dcap

\* the i-th smallest element of a set of numbers
Nth(S, i) == CHOOSE x \in S : Cardinality({y \in S : y <= x}) = i

\* C4: whatever downloads fail (an exception, a rate-limit signal or an
\* empty payload), the call returns, and it returns exactly the retained
\* stories whose download succeeded, in their original order: K - F items
\* for F failures among K retained stories.
C4_FailuresSkipped ==
    dres # NoCall =>
        LET K == Len(dres.all_stories)
            ok == {i \in 1..K : dres.outcomes[i] = "ok"}
            F == K - Cardinality(ok)
        IN  /\ dres.status = "returned"
            /\ Len(dres.items) = K - F
            /\ \A p \in 1..Len(dres.items) :
                  /\ dres.items[p].story_id = dres.all_stories[Nth(ok, p)].story.id
                  /\ dres.items[p].story_type = dres.all_stories[Nth(ok, p)].type

\* two of four downloads failed, the first of them, and the other two came
\* back
C4_Witness ==
    /\ dres # NoCall
    /\ Len(dres.all_stories) = 4
    /\ dres.outcomes = <<"error", "ok", "flood", "ok">>
    /\ Len(dres.items) = 2
    /\ dres.items[1].story_id = dres.all_stories[2].story.id
    /\ dres.items[2].story_id = dres.all_stories[4].story.id

\* the positions of the download attempts in a call's events
Attempts(res) == {k \in 1..Len(res.events) : res.events[k].ev = "download"}

\* the event that follows the i-th download attempt, if it is a sleep
SleepAfter(res, i) ==
    LET k == Nth(Attempts(res), i) IN
    IF k < Len(res.events) /\ res.events[k + 1].ev = "sleep"
    THEN res.events[k + 1].id ELSE "no sleep"

\* C11: a rate-limit signal of a download does not fail the call: every
\* retained story is attempted once, in order; right after a rate-limited
\* attempt the call sleeps the signal's e.seconds, and nothing else, before
\* the next attempt; after an attempt that did not raise it sleeps the fixed
\* flood_wait_delay; there is no other sleep.
C11_FloodWait ==
    dres # NoCall =>
        LET K == Len(dres.all_stories) IN
        /\ dres.status = "returned"
        /\ Cardinality(Attempts(dres)) = K
        /\ \A i \in 1..K :
              /\ dres.events[Nth(Attempts(dres), i)].id = dres.all_stories[i].story.id
              /\ dres.outcomes[i] = "flood" => SleepAfter(dres, i) = "e.seconds"
              /\ dres.outcomes[i] \in {"ok", "empty"} =>
                    SleepAfter(dres, i) = "flood_wait_delay"
              /\ dres.outcomes[i] = "error" => SleepAfter(dres, i) = "no sleep"
        /\ \A k \in 1..Len(dres.events) :
              dres.events[k].ev = "sleep" => (k > 1 /\ dres.events[k - 1].ev = "download")

\* the first of three downloads was rate-limited; the call slept e.seconds,
\* went on with the other two and returned the one that came back
C11_Witness ==
    /\ dres # NoCall
    /\ dres.outcomes = <<"flood", "ok", "error">>
    /\ Len(dres.events) = 5
    /\ dres.events[2] = [ev |-> "sleep", id |-> "e.seconds"]
    /\ dres.events[3].ev = "download"
    /\ Len(dres.items) = 1

(***************************************************************************)
(* Claims about the handlers and the tables (checked under Spec, C7 and   *)
(* C13 under SpecDb)                                                       *)
(***************************************************************************)
IsCommand(text) == text # <<>> /\ text[1] = "/"

\* C5 as stated: every non-command text message ends with exactly one
\* request row inserted, on every path, and a failure row carries a
\* non-empty error text.
C5_Original ==
    \A h \in Handlers :
        (hst[h].pc = "finished" /\ ~IsCommand(hst[h].text)) =>
            /\ hst[h].rows = 1
            /\ ~requests[hst[h].lastrow].success =>
                  requests[hst[h].lastrow].error_message \notin {"NULL", ""}

\* the row handler h inserted last says "no stories"
SaidNoStories(h) ==
    /\ hst[h].rows >= 1
    /\ requests[hst[h].lastrow].error_message = "No stories found"

\* C6 as stated: a "no stories" outcome is produced only for a resolved
\* target that really has no media-bearing stories, never after a failed
\* resolution, a failed story request or failed downloads.
C6_Original ==
    \A h \in Handlers :
        (hst[h].pc = "finished" /\ (SaidNoStories(h) \/ hst[h].reply = "no_stories")) =>
            /\ hst[h].resolved
            /\ hst[h].genuine

\* C6, amended: "target not found" and "no stories" are two outcomes; the
\* "no stories" outcome (user message and error text) is produced only
\* when the target was resolved and download_stories returned an empty
\* sequence, which it does for a target without media-bearing stories and
\* also when a story request or every download failed; never when the
\* resolution failed.
C6_NoStoriesOutcome ==
    \A h \in Handlers :
        hst[h].pc = "finished" =>
            /\ (SaidNoStories(h) \/ hst[h].reply = "no_stories") =>
                  /\ hst[h].resolved
                  /\ hst[h].n = 0
                  /\ hst[h].outcome = "no_stories"
            /\ hst[h].outcome = "no_stories" =>
                  SaidNoStories(h) /\ hst[h].reply = "no_stories"
            /\ hst[h].outcome = "not_found" =>
                  /\ ~hst[h].resolved
                  /\ hst[h].reply = "not_found"
                  /\ requests[hst[h].lastrow].error_message = "User not found"

\* a resolved target without stories was reported as "no stories"
C6_Witness ==
    \E h \in Handlers :
        /\ hst[h].pc = "finished"
        /\ hst[h].outcome = "no_stories"
        /\ hst[h].genuine
        /\ SaidNoStories(h)

\* C7: the users table holds at most one row for each user id, and that
\* row carries the names of the latest save_user call for the id.
C7_OneRowPerUser ==
    \A id \in UserIds :
        LET rows == {r \in users : r.user_id = id} IN
        /\ Cardinality(rows) <= 1
        /\ lastSave[id].id = 0 => rows = {}
        /\ lastSave[id].id # 0 =>
              \E r \in rows :
                  /\ r.username = lastSave[id].username
                  /\ r.first_name = lastSave[id].first_name
                  /\ r.last_name = lastSave[id].last_name

\* user 1 was saved as ann on day 1 and as anna on day 2; user 2 has a row
\* too
C7_Witness ==
    /\ \E r \in users :
          /\ r.user_id = 1
          /\ r.username = "anna"
          /\ r.created_at = 1
          /\ r.last_active = 2
    /\ \E r \in users : r.user_id = 2
    /\ Cardinality(users) = 2

\* the rows of every id but one are the same before and after the step
OnlyRowOf(id) ==
    /\ \A r \in users : r.user_id # id => r \in users'
    /\ \A q \in users' : q.user_id # id => q \in users

C14_Original ==
    /\ [](\A h \in Handlers :
            (hst[h].pc = "finished" /\ hst[h].outcome # "crashed") =>
                \E r \in users : r.user_id = hst[h].user)
    /\ [][\A r \in users : \E q \in users' : q.user_id = r.user_id]_vars

\* the kind the recognition order gives a trimmed text
KindOf(s) ==
    IF HasStoryLink(s) THEN "direct_link"
    ELSE IF s # <<>> /\ s[1] = "@" THEN "username"
    ELSE IF IsPhoneText(s) THEN "phone"
    ELSE "username"

\* C15 as stated: the request row of a message holds the target text and,
\* on success and on every failure path, the kind the recognition order
\* gives that text.
C15_Original ==
    /\ \A i \in 1..Len(requests) :
          requests[i].request_type = KindOf(requests[i].target)
    /\ \A h \in Handlers :
          (hst[h].pc = "finished" /\ hst[h].rows >= 1) =>
              requests[hst[h].lastrow].target = hst[h].text

\* C16: a success row has stories_count >= 1 and no error text, a failure
\* row has stories_count = 0 and an error text; the success row of a handler
\* counts the items download_stories returned, for each of which a send was
\* attempted before; the statistics are recomputed only after a success row
\* was inserted.
C16_RowShape ==
    /\ \A i \in 1..Len(requests) :
          IF requests[i].success
          THEN requests[i].stories_count >= 1 /\ requests[i].error_message = "NULL"
          ELSE requests[i].stories_count = 0 /\ requests[i].error_message # "NULL"
    /\ \A h \in Handlers :
          hst[h].pc = "save_success" =>
              hst[h].n >= 1 /\ hst[h].attempted = hst[h].n
    /\ \A h \in Handlers :
          (\/ hst[h].pc = "update_stats"
           \/ hst[h].pc = "finished" /\ hst[h].outcome = "success") =>
              /\ hst[h].rows >= 1
              /\ requests[hst[h].lastrow].success
              /\ requests[hst[h].lastrow].stories_count = hst[h].n
              /\ hst[h].attempted = hst[h].n
    /\ \A r \in statistics :
          \E i \in 1..Len(requests) :
              requests[i].success /\ requests[i].created_at <= r.date

\* a success row of one story and a failure row lie in the table, and the
\* statistics were recomputed
C16_Witness ==
    /\ \E i \in 1..Len(requests) :
          requests[i].success /\ requests[i].stories_count = 1
    /\ \E i \in 1..Len(requests) :
          ~requests[i].success /\ requests[i].error_message = ""
    /\ statistics # {}
    /\ \E h \in Handlers :
          /\ hst[h].pc = "finished"
          /\ hst[h].outcome = "success"
          /\ hst[h].attempted = 1

\* handler h has just run update_daily_stats
Recomputed(h) ==
    /\ hst[h].pc = "update_stats"
    /\ hst'[h].pc = "finished"
    /\ hst'[h].outcome = "success"

OneRowPerDate ==
    \A r1 \in statistics, r2 \in statistics : r1.date = r2.date => r1 = r2

RECURSIVE StoriesOn(_, _, _)
StoriesOn(reqs, date, i) ==
    IF i = 0 THEN 0
    ELSE StoriesOn(reqs, date, i - 1)
            + (IF reqs[i].created_at = date THEN reqs[i].stories_count ELSE 0)

\* the statistics row of the current date holds the aggregates over the
\* rows as they are
StatsCurrent ==
    \E r \in statistics :
        /\ r.date = today
        /\ r.total_users = Cardinality({u.user_id : u \in users})
        /\ r.active_users =
              Cardinality({u.user_id : u \in {x \in users : x.last_active = today}})
        /\ r.total_requests =
              Cardinality({i \in DOMAIN requests : requests[i].created_at = today})
        /\ r.successful_requests =
              Cardinality({i \in DOMAIN requests :
                              requests[i].created_at = today /\ requests[i].success})
        /\ r.failed_requests = r.total_requests - r.successful_requests
        /\ r.total_stories = StoriesOn(requests, today, Len(requests))

\* the success row handler h inserted is counted in the current date's row
TriggerCounted(h) ==
    \E r \in statistics :
        /\ r.date = today
        /\ requests[hst[h].lastrow].created_at = r.date
        /\ r.successful_requests >= 1
        /\ r.total_stories >= requests[hst[h].lastrow].stories_count

\* C8 as stated: at most one statistics row per date, and right after each
\* update_daily_stats the current date's row equals the aggregates over the
\* existing rows, the request that triggered the recompute included.
C8_Original ==
    /\ []OneRowPerDate
    /\ [][\A h \in Handlers :
            Recomputed(h) => (StatsCurrent' /\ TriggerCounted(h)')]_vars

\* C8, amended: at most one statistics row per date, and right after each
\* update_daily_stats the current date's row equals the aggregates over the
\* existing rows; the request that triggered the recompute is included when
\* its row was inserted on the date of the recompute (a recompute that runs
\* after midnight leaves it out).
C8_DailyStats ==
    /\ []OneRowPerDate
    /\ [][\A h \in Handlers :
            Recomputed(h) =>
                /\ StatsCurrent'
                /\ requests[hst[h].lastrow].created_at = today => TriggerCounted(h)']_vars

\* two recomputes on day 1 left one row, which counts both requests
C8_Witness ==
    /\ \E r \in statistics : r.date = 1 /\ r.successful_requests = 2
    /\ \A r \in statistics : r.date = 1
    /\ Cardinality(statistics) = 1
    /\ \E h \in Handlers : hst[h].pc = "finished" /\ hst[h].outcome = "success"

(***************************************************************************)
(* Claims about the session cache (checked under SpecSession)              *)
(***************************************************************************)
\* C9: once a user's session is closed, a page action of that user reports
\* "session expired" and renders nothing; closing again changes nothing;
\* a new request replaces the user's one session and nobody else's.
C9_ClosedSession ==
    nav.action # "none" =>
        LET u == nav.user IN
        /\ (nav.action = "page" /\ nav.after_close) =>
              /\ nav.outcome = "session expired"
              /\ nav.shown = <<>>
              /\ user_sessions = nav.before
        /\ nav.action = "close" =>
              /\ ~user_sessions[u].open
              /\ nav.after_close => user_sessions = nav.before
        /\ nav.action = "dl" =>
              /\ user_sessions[u].open
              /\ user_sessions[u].page = 0
              /\ nav.shown = PageSlice(user_sessions[u].items, 0)
        /\ \A v \in SessionUsers \ {u} : user_sessions[v] = nav.before[v]

\* a user who closed the session asked for a page and was told that the
\* session expired, while the other user's session is open
C9_Witness ==
    /\ nav.action = "page"
    /\ nav.after_close
    /\ nav.outcome = "session expired"
    /\ \E v \in SessionUsers : user_sessions[v].open /\ user_sessions[v].page = 1

(***************************************************************************)
(* Claims about get_config (checked under SpecConfig)                      *)
(***************************************************************************)
\* every required setting is present and well formed
EnvGood(e) ==
    /\ e.BOT_TOKEN.set /\ e.BOT_TOKEN.val # <<>>
    /\ e.USERBOT_API_ID.set
    /\ ParseInt(e.USERBOT_API_ID.val).ok
    /\ ParseInt(e.USERBOT_API_ID.val).val > 0
    /\ e.USERBOT_API_HASH.set /\ Len(e.USERBOT_API_HASH.val) >= 32
    /\ e.USERBOT_PHONE.set /\ StartsWith(e.USERBOT_PHONE.val, "+")
    /\ e.DB_PASS.set /\ e.DB_PASS.val # <<>>

\* C10 as stated: get_config fails whenever a required setting is absent
\* or malformed, validation errors are reported as a list, no call returns
\* a Config that fails validate, and a call after a failed call fails.
C10_Original ==
    \A i \in 1..Len(gcalls) :
        /\ gcalls[i].status = "returned" =>
              /\ EnvGood(env)
              /\ Validate(gcalls[i].config) = <<>>
        /\ (i > 1 /\ gcalls[i - 1].status = "raised") =>
              gcalls[i].status = "raised"
        /\ (gcalls[i].status = "raised" /\ gcalls[i].message = "Configuration errors:") =>
              gcalls[i].items # <<>>

=============================================================================
